---- MODULE Spec2Model ----
(***************************************************************************)
(* Model of the output-comparison scripts of ramBLe:                       *)
(*   src/mnets/compare_lemontree.py  (partitions, regulator scores, XML    *)
(*                                    module trees, the task dispatcher)   *)
(*   src/scripts/compare.py          (directed-graph edge comparison)      *)
(*   src/scripts/run_experiments.py  (run_experiment, the repeat loop)     *)
(*                                                                         *)
(* Text files are sequences of lines, a line is the token list that        *)
(* line.split() returns.  Real numbers are integers in units of 1e-6.      *)
(* A comparator returns a record: the value it returns (or the exception   *)
(* it raises) together with the ERROR lines it prints.                     *)
(***************************************************************************)
EXTENDS Integers, Sequences, FiniteSets, TLC

VARIABLES
    TOLERANCE,     \* the module global of compare_lemontree.py
    pc,            \* where the running script is
    first, second, \* the two arguments of a comparator call
    ret,           \* what the comparator call returned
    task_outputs,  \* main: the OrderedDict read_task_outputs returned
    declared,      \* main: the output_file values the two configs.json declared
    position,      \* main: index of the next task of the loop over task_outputs
    match,         \* main: the flag the final assert tests
    status,        \* main: per task Pending, Skipped, Matched or Mismatched
    calls,         \* main: the comparisons made so far, in order
    opened,        \* main: the output files opened so far, in order
    warnings,      \* main: the WARNING lines read_task_outputs printed
    exception,     \* main: the exception that ended the run
    repeat,        \* run_experiment: the number of runs asked for
    comparing,     \* run_experiment: its argument compare
    r,             \* run_experiment: the number of runs recorded so far
    t,             \* run_experiment: the number of failures in a row
    runtimes,      \* run_experiment: the list of runtime records
    output,        \* run_experiment: the output of the last invocation
    invocations,   \* run_experiment: the invocations made so far, in order
    retries        \* run_experiment: how often 'Run failed. Retrying.' was printed

cvars == <<TOLERANCE, pc, first, second, ret>>

mvars ==
    <<task_outputs, declared, position, match, status, calls, opened, warnings, exception>>

evars == <<repeat, comparing, r, t, runtimes, output, invocations, retries>>

vars ==
    <<TOLERANCE, pc, first, second, ret,
      task_outputs, declared, position, match, status, calls, opened, warnings,
      exception, repeat, comparing, r, t, runtimes, output, invocations, retries>>

(* ---------------------------------------------------------------- bounds *)
MaxLines == 2
MaxChildren == 2
MaxEdges == 2
MaxTasks == 2

(* ------------------------------------------------------------- constants *)
\* TOLERANCE = 1e-6, in units of 1e-6
DefaultTolerance == 1

\* values of --tolerance (None keeps the default)
Tolerances == {0, DefaultTolerance, 2 * DefaultTolerance}

None == "None"

(* ---------------------------------------------------------------- helpers *)
SeqsUpTo(S, n) == UNION {[1..k -> S] : k \in 0..n}

Range(s) == {s[k] : k \in DOMAIN s}

abs(x) == IF x < 0 THEN -x ELSE x

\* result of a call that returns normally
Returned(value, printed) == [raised |-> None, value |-> value, printed |-> printed]

\* before the call
NotCalled == [raised |-> "NotCalled", value |-> FALSE, printed |-> {}]

\* the variables of main while a comparator is called on its own
MainIdle ==
    /\ task_outputs = <<>>
    /\ declared = <<>>
    /\ position = 0
    /\ match = TRUE
    /\ status = <<>>
    /\ calls = <<>>
    /\ opened = <<>>
    /\ warnings = {}
    /\ exception = None

\* the variables of run_experiment while another function runs
ExperimentIdle ==
    /\ repeat = 0
    /\ comparing = FALSE
    /\ r = 0
    /\ t = 0
    /\ runtimes = <<>>
    /\ output = <<>>
    /\ invocations = <<>>
    /\ retries = 0

\* result of a call that raises
Raised(exc) == [raised |-> exc, value |-> FALSE, printed |-> {}]

(* ------------------------------------------------- float(text) of Python *)
FloatTexts == {"0", "1e-6", "0.000001", "2e-6"}

\* tokens for which float(text) returns a nan
NanTexts == {"nan"}

\* float(text) returns for these tokens and raises ValueError for any other
Parses(text) == text \in FloatTexts \cup NanTexts

\* float(text) is a nan: every comparison with it, >= included, is False
IsNan(text) == text \in NanTexts

\* float(text), in units of 1e-6
float(text) ==
    CASE text = "0" -> 0
      [] text = "1e-6" -> 1
      [] text = "0.000001" -> 1
      [] text = "2e-6" -> 2

(* ------------------------------------------ dict(line.split() for line) *)
\* every element of the update sequence must have length 2
DictOk(lines) == \A k \in DOMAIN lines : Len(lines[k]) = 2

\* a later line with the same key overwrites an earlier one
Dict(lines) ==
    [key \in {lines[k][1] : k \in DOMAIN lines} |->
        LET last == CHOOSE k \in DOMAIN lines :
                        /\ lines[k][1] = key
                        /\ \A j \in DOMAIN lines : lines[j][1] = key => j <= k
        IN  lines[last][2]]

(* ------------------------------------------------------ compare_clusters *)
compare_clusters_ignores_leftover(firstfile, secondfile) ==
    IF ~(DictOk(firstfile) /\ DictOk(secondfile)) THEN Raised("ValueError")
    ELSE
    LET firstclusters == Dict(firstfile)
        secondclusters == Dict(secondfile)
        notfound == {var \in DOMAIN firstclusters : var \notin DOMAIN secondclusters}
        mismatch == {var \in DOMAIN firstclusters \cap DOMAIN secondclusters :
                        firstclusters[var] # secondclusters[var]}
    IN  Returned(mismatch = {},
                 {<<"not found", var>> : var \in notfound}
                    \cup {<<"Mismatch in cluster", var>> : var \in mismatch})

compare_clusters_any_label(firstfile, secondfile) ==
    IF ~(DictOk(firstfile) /\ DictOk(secondfile)) THEN Raised("ValueError")
    ELSE
    LET firstclusters == Dict(firstfile)
        secondclusters == Dict(secondfile)
        notfound == {var \in DOMAIN firstclusters : var \notin DOMAIN secondclusters}
        leftover == DOMAIN secondclusters \ DOMAIN firstclusters
    IN  Returned(leftover = {},
                 {<<"not found", var>> : var \in notfound}
                    \cup (IF leftover # {} THEN {<<"missing some clusters">>} ELSE {}))

\* firstfile, secondfile: the lines of the two opened files
compare_clusters(firstfile, secondfile) ==
    IF ~(DictOk(firstfile) /\ DictOk(secondfile)) THEN Raised("ValueError")
    ELSE
    LET firstclusters == Dict(firstfile)
        secondclusters == Dict(secondfile)
        \* secondclusters.pop(var, None) is None
        notfound == {var \in DOMAIN firstclusters : var \notin DOMAIN secondclusters}
        \* cluster != sc
        mismatch == {var \in DOMAIN firstclusters \cap DOMAIN secondclusters :
                        firstclusters[var] # secondclusters[var]}
        \* what is left in secondclusters after the pops
        leftover == DOMAIN secondclusters \ DOMAIN firstclusters
    IN  Returned(mismatch = {} /\ leftover = {},
                 {<<"not found", var>> : var \in notfound}
                    \cup {<<"Mismatch in cluster", var>> : var \in mismatch}
                    \cup (IF leftover # {} THEN {<<"missing some clusters">>} ELSE {}))

(* ------------------------------------------- inputs of compare_clusters *)
Items == {"g1", "g2"}
Labels == {"A", "B", "C"}
ClusterLines == {<<item, label>> : item \in Items, label \in Labels}
ClusterFiles == SeqsUpTo(ClusterLines, MaxLines)

InitClusters ==
    /\ TOLERANCE = DefaultTolerance
    /\ pc = "compare_clusters"
    /\ first \in ClusterFiles
    /\ second \in ClusterFiles
    /\ ret = NotCalled
    /\ MainIdle
    /\ ExperimentIdle

CompareClusters ==
    /\ pc = "compare_clusters"
    /\ ret' = compare_clusters(first, second)
    /\ pc' = "returned_clusters"
    /\ UNCHANGED <<TOLERANCE, first, second, mvars, evars>>

(* ------------------------------------------------------- read_regulators *)
\* reg, module, score = line.split(); float(score)
RegulatorsOk(lines) ==
    \A k \in DOMAIN lines : Len(lines[k]) = 3 /\ Parses(lines[k][3])

\* regulators[tuple([reg, module])] = float(score), a later line overwrites
read_regulators(lines) ==
    [vc \in {<<lines[k][1], lines[k][2]>> : k \in DOMAIN lines} |->
        LET last == CHOOSE k \in DOMAIN lines :
                        /\ <<lines[k][1], lines[k][2]>> = vc
                        /\ \A j \in DOMAIN lines :
                              <<lines[j][1], lines[j][2]>> = vc => j <= k
        IN  float(lines[last][3])]

(* ---------------------------------------------------- compare_regulators *)
compare_regulators_strict(firstfile, secondfile) ==
    IF ~(RegulatorsOk(firstfile) /\ RegulatorsOk(secondfile)) THEN Raised("ValueError")
    ELSE
    LET firstregulators == read_regulators(firstfile)
        secondregulators == read_regulators(secondfile)
        notfound == {vc \in DOMAIN firstregulators : vc \notin DOMAIN secondregulators}
        mismatch == {vc \in DOMAIN firstregulators \cap DOMAIN secondregulators :
                        abs(firstregulators[vc] - secondregulators[vc]) > TOLERANCE}
        leftover == DOMAIN secondregulators \ DOMAIN firstregulators
    IN  Returned(mismatch = {} /\ leftover = {},
                 {<<"not a regulator", vc>> : vc \in notfound}
                    \cup {<<"Mismatch in score", vc>> : vc \in mismatch}
                    \cup (IF leftover # {} THEN {<<"missing some regulators">>} ELSE {}))

\* firstfile, secondfile: the lines of the two files
compare_regulators(firstfile, secondfile) ==
    IF ~(RegulatorsOk(firstfile) /\ RegulatorsOk(secondfile)) THEN Raised("ValueError")
    ELSE
    LET firstregulators == read_regulators(firstfile)
        secondregulators == read_regulators(secondfile)
        \* secondregulators.pop(vc, None) is None
        notfound == {vc \in DOMAIN firstregulators : vc \notin DOMAIN secondregulators}
        \* abs(score - ls) >= TOLERANCE
        mismatch == {vc \in DOMAIN firstregulators \cap DOMAIN secondregulators :
                        abs(firstregulators[vc] - secondregulators[vc]) >= TOLERANCE}
        \* what is left in secondregulators after the pops
        leftover == DOMAIN secondregulators \ DOMAIN firstregulators
    IN  Returned(mismatch = {} /\ leftover = {},
                 {<<"not a regulator", vc>> : vc \in notfound}
                    \cup {<<"Mismatch in score", vc>> : vc \in mismatch}
                    \cup (IF leftover # {} THEN {<<"missing some regulators">>} ELSE {}))

(* ----------------------------------------- inputs of compare_regulators *)
Regulators == {"r1", "r2"}
Modules == {"m1"}
Scores == {"0", "1e-6"}
RegulatorLines ==
    {<<reg, module, score>> : reg \in Regulators, module \in Modules, score \in Scores}
RegulatorFiles == SeqsUpTo(RegulatorLines, MaxLines)

InitRegulators ==
    /\ TOLERANCE \in Tolerances
    /\ pc = "compare_regulators"
    /\ first \in RegulatorFiles
    /\ second \in RegulatorFiles
    /\ ret = NotCalled
    /\ MainIdle
    /\ ExperimentIdle

CompareRegulators ==
    /\ pc = "compare_regulators"
    /\ ret' = compare_regulators(first, second)
    /\ pc' = "returned_regulators"
    /\ UNCHANGED <<TOLERANCE, first, second, mvars, evars>>

(* ----------------------------------------------------- compare_xml_trees *)
\* an element: its tag, its attributes in document order, its children
Element(tag, attrib, children) == [tag |-> tag, attrib |-> attrib, children |-> children]

\* the check of one zipped pair of attributes (key, value): "" when it passes
AttributeError(a1, a2) ==
    IF a1[1] = a2[1]
    THEN IF Parses(a1[2]) /\ Parses(a2[2])
         THEN IF /\ ~IsNan(a1[2])
                 /\ ~IsNan(a2[2])
                 /\ abs(float(a1[2]) - float(a2[2])) >= TOLERANCE
              THEN "value" ELSE ""
         ELSE \* except ValueError
              IF a1[2] # a2[2] THEN "value" ELSE ""
    ELSE "attribute keys"

\* the checks of one pair of nodes, before the recursion: "" when they pass
NodeError(e1, e2) ==
    IF e1.tag # e2.tag THEN "tag"
    ELSE IF Len(e1.attrib) # Len(e2.attrib) THEN "number of attributes"
    ELSE IF \E k \in DOMAIN e1.attrib : AttributeError(e1.attrib[k], e2.attrib[k]) # ""
         THEN "attributes"
    ELSE IF Len(e1.children) # Len(e2.children) THEN "number of children"
    ELSE ""

RECURSIVE compare_xml_trees_short_circuit(_, _, _)
compare_xml_trees_short_circuit(e1, e2, path) ==
    IF NodeError(e1, e2) # ""
    THEN [value |-> FALSE, printed |-> {<<path, NodeError(e1, e2)>>}, visited |-> {path}]
    ELSE LET sub == [k \in DOMAIN e1.children |->
                        compare_xml_trees_short_circuit(e1.children[k], e2.children[k],
                                                        Append(path, k))]
             reached == {k \in DOMAIN sub : \A j \in 1..(k - 1) : sub[j].value}
         IN  [value |-> \A k \in DOMAIN sub : sub[k].value,
              printed |-> UNION {sub[k].printed : k \in reached},
              visited |-> {path} \cup UNION {sub[k].visited : k \in reached}]

\* value: what the call returns; printed: the positions (child index paths)
\* of the calls that print an ERROR; visited: the positions of all calls
RECURSIVE compare_xml_trees(_, _, _)
compare_xml_trees(e1, e2, path) ==
    IF NodeError(e1, e2) # ""
    THEN [value |-> FALSE, printed |-> {<<path, NodeError(e1, e2)>>}, visited |-> {path}]
    ELSE LET sub == [k \in DOMAIN e1.children |->
                        compare_xml_trees(e1.children[k], e2.children[k], Append(path, k))]
         IN  \* all([...]): the list is built in full before all() reads it
             [value |-> \A k \in DOMAIN sub : sub[k].value,
              printed |-> UNION {sub[k].printed : k \in DOMAIN sub},
              visited |-> {path} \cup UNION {sub[k].visited : k \in DOMAIN sub}]

(* ------------------------------------------ inputs of compare_xml_trees *)
Leaf(tag) == Element(tag, <<>>, <<>>)

ChildElements ==
    {Element("child", <<<<"x", "0">>>>, <<>>),
     Element("child", <<<<"x", "1e-6">>>>, <<>>),
     Element("other", <<<<"x", "0">>>>, <<Leaf("g")>>),
     Element("other", <<<<"x", "0">>>>, <<Leaf("h")>>)}

RootAttribs ==
    {<<<<"a", "0">>>>, <<<<"a", "1e-6">>>>, <<<<"a", "0.000001">>>>, <<<<"a", "abc">>>>,
     <<<<"a", "nan">>>>,
     <<<<"a", "0">>, <<"b", "0">>>>, <<<<"b", "0">>, <<"a", "0">>>>}

XmlTrees ==
    {Element("root", attrib, children) :
        attrib \in RootAttribs, children \in SeqsUpTo(ChildElements, MaxChildren)}

InitXmlTrees ==
    /\ TOLERANCE \in Tolerances
    /\ pc = "compare_xml_trees"
    /\ first \in XmlTrees
    /\ second \in XmlTrees
    /\ ret = NotCalled
    /\ MainIdle
    /\ ExperimentIdle

CompareXmlTrees ==
    /\ pc = "compare_xml_trees"
    /\ ret' = [raised |-> None] @@ compare_xml_trees(first, second, <<>>)
    /\ pc' = "returned_xml_trees"
    /\ UNCHANGED <<TOLERANCE, first, second, mvars, evars>>

(* ------------------------------------------------- compare (compare.py) *)
\* a pydot graph: its type, the names of its declared nodes, and its list of
\* edges (source, destination); pydot keeps every listed edge, repeats included
Graph(type, nodes, edges) == [type |-> type, nodes |-> nodes, edges |-> edges]

get_edge_undirected(graph, edge) ==
    LET reverse == <<edge[2], edge[1]>>
        found == IF edge \in Range(graph.edges) THEN edge
                 ELSE IF reverse \in Range(graph.edges) THEN reverse
                 ELSE None
    IN  SelectSeq(graph.edges, LAMBDA e : e = found)

\* graph.get_edge(edge): the list of the edges of the graph between the two
\* end points; an undirected graph also answers with the reversed edge when
\* it holds none in the asked direction
get_edge(graph, edge) ==
    LET reverse == <<edge[2], edge[1]>>
        found == IF edge \in Range(graph.edges) THEN edge
                 ELSE IF graph.type = "graph" /\ reverse \in Range(graph.edges) THEN reverse
                 ELSE None
    IN  SelectSeq(graph.edges, LAMBDA e : e = found)

\* graph.get_node(name): the list of the declared nodes of that name
get_node(graph, name) == IF name \in graph.nodes THEN <<name>> ELSE <<>>

compare_nodes_gate(graph1, graph2) ==
    LET mismatches == Cardinality({n \in graph1.nodes : Len(get_node(graph2, n)) = 0})
        found == {k \in DOMAIN graph1.edges :
                    mismatches = 0 /\ Len(get_edge(graph2, graph1.edges[k])) = 1}
        tp == Cardinality(found)
        fn == Len(graph1.edges) - tp
        fp == Len(graph2.edges) - tp
    IN  Returned(<<tp, fp, fn>>,
                 {<<"nodes not found", mismatches>> : m \in {mismatches} \ {0}}
                    \cup {<<"Edge not found", graph1.edges[k]>> :
                            k \in DOMAIN graph1.edges \ found})

compare_fp_from_first(graph1, graph2) ==
    LET mismatches == Cardinality({n \in graph1.nodes : Len(get_node(graph2, n)) = 0})
        found == {k \in DOMAIN graph1.edges : Len(get_edge(graph2, graph1.edges[k])) = 1}
        tp == Cardinality(found)
        fn == Len(graph1.edges) - tp
        fp == Len(graph1.edges) - tp
    IN  Returned(<<tp, fp, fn>>,
                 {<<"nodes not found", mismatches>> : m \in {mismatches} \ {0}}
                    \cup {<<"Edge not found", graph1.edges[k]>> :
                            k \in DOMAIN graph1.edges \ found})

\* compare(first, second, verbose) with verbose set; value is (tp, fp, fn)
compare(graph1, graph2) ==
    LET \* not second.get_node(n.get_name())
        mismatches == Cardinality({n \in graph1.nodes : Len(get_node(graph2, n)) = 0})
        \* len(se) == 1, for each listed edge of the first graph
        found == {k \in DOMAIN graph1.edges : Len(get_edge(graph2, graph1.edges[k])) = 1}
        tp == Cardinality(found)
        fn == Len(graph1.edges) - tp
        fp == Len(graph2.edges) - tp
    IN  Returned(<<tp, fp, fn>>,
                 {<<"nodes not found", mismatches>> : m \in {mismatches} \ {0}}
                    \cup {<<"Edge not found", graph1.edges[k]>> :
                            k \in DOMAIN graph1.edges \ found})

(* ----------------------------------------------------- inputs of compare *)
GraphTypes == {"digraph", "graph"}
NodeNames == {"A"}
Edges == {<<"A", "B">>, <<"B", "C">>, <<"C", "D">>, <<"B", "A">>}
Graphs ==
    {Graph(type, nodes, edges) :
        type \in GraphTypes, nodes \in SUBSET NodeNames, edges \in SeqsUpTo(Edges, MaxEdges)}

InitGraphs ==
    /\ TOLERANCE = DefaultTolerance
    /\ pc = "compare"
    /\ first \in Graphs
    /\ second \in Graphs
    /\ ret = NotCalled
    /\ MainIdle
    /\ ExperimentIdle

CompareGraphs ==
    /\ pc = "compare"
    /\ ret' = compare(first, second)
    /\ pc' = "returned_compare"
    /\ UNCHANGED <<TOLERANCE, first, second, mvars, evars>>

(* -------------------------------------- the comparators, one call each *)
Init == InitClusters \/ InitRegulators \/ InitXmlTrees \/ InitGraphs

Next == CompareClusters \/ CompareRegulators \/ CompareXmlTrees \/ CompareGraphs

Spec == Init /\ [][Next]_vars

(***************************************************************************)
(* main of compare_lemontree.py                                            *)
(*                                                                         *)
(* The two directories are "first" and "second"; a path is the tuple of    *)
(* its parts.  Every task of a configs.json declares an output_file.       *)
(***************************************************************************)
Tasks == {"ganesh", "tight_clusters", "regulators", "other"}

\* JSON null
null == "null"

\* what the configs.json of a directory can declare as the output_file of a
\* task
OutputFiles(dir, task) ==
    IF dir = "first"
    THEN CASE task = "ganesh" -> {null, "ganesh.a", "ganesh.b"}
           [] task = "tight_clusters" -> {"", "tight.a", "tight.b", "tight.c"}
           [] task = "regulators" -> {"mod.a", "mod.b", "mod.c"}
           [] task = "other" -> {"other.a"}
    ELSE CASE task = "ganesh" -> {"ganesh.a", "ganesh.b"}
           [] task = "tight_clusters" -> {"", "tight.a", "tight.b"}
           [] task = "regulators" -> {"mod.a", "mod.b", "mod.c"}
           [] task = "other" -> {null, "other.a"}

ConfigEntries(dir) ==
    UNION {{[task |-> task, output_file |-> out] : out \in OutputFiles(dir, task)} :
              task \in Tasks}

\* a loaded configs.json: an OrderedDict, so its keys are distinct
Configs(dir) ==
    {c \in SeqsUpTo(ConfigEntries(dir), MaxTasks) :
        \A k, j \in DOMAIN c : c[k].task = c[j].task => k = j}

\* the other keys of a task: a dict from names to values
seed_1 == [name \in {"seed"} |-> "1"]

seed_1_runs_2 == [name \in {"seed", "num_runs"} |-> IF name = "seed" THEN "1" ELSE "2"]

seed_2_steps_3 == [name \in {"seed", "num_steps"} |-> IF name = "seed" THEN "2" ELSE "3"]

\* the other keys of the tasks of the first and of the second directory
Params == {<<seed_1, seed_1>>, <<seed_1_runs_2, seed_2_steps_3>>}

\* the configs with these other keys in every task
WithParams(configs, params) ==
    [k \in DOMAIN configs |-> [task |-> configs[k].task,
                               output_file |-> configs[k].output_file,
                               params |-> params]]

(* ------------------------------------------------- the files on the disk *)
g1A_g2B == <<<<"g1", "A">>, <<"g2", "B">>>>

g1A_g2A == <<<<"g1", "A">>, <<"g2", "A">>>>

g1A_g2C == <<<<"g1", "A">>, <<"g2", "C">>>>

r1_0 == <<<<"r1", "m1", "0">>>>

r1_2 == <<<<"r1", "m1", "2e-6">>>>

\* a line that does not split into two tokens
g1_only == <<<<"g1">>>>

\* a gzipped, well-formed document with this root
XmlFile(root) == [error |-> None, root |-> root]

\* a file that gzip cannot decompress
NotGzipped == [error |-> "BadGzipFile", root |-> Leaf("none")]

\* a gzipped file that ET.parse cannot parse
NotWellFormed == [error |-> "ParseError", root |-> Leaf("none")]

OneChild ==
    XmlFile(Element("root", <<>>, <<Element("child", <<<<"x", "0">>>>, <<>>)>>))

\* the same document with x = 1e-6 in the child
MovedChild ==
    XmlFile(Element("root", <<>>, <<Element("child", <<<<"x", "1e-6">>>>, <<>>)>>))

\* the content of every file that exists
Disk ==
    \* lists of GaneSH runs, one path per line
    (<<"first", "ganesh.a">> :> <<<<"first", "run1">>, <<"first", "run2">>>>)
    @@ (<<"first", "ganesh.b">> :> <<<<"first", "run2">>, <<"first", "run1">>>>)
    @@ (<<"second", "ganesh.a">> :> <<<<"second", "run1">>, <<"second", "run2">>>>)
    @@ (<<"second", "ganesh.b">> :> <<<<"second", "run1">>>>)
    @@ (<<"first", "run1">> :> g1A_g2B)
    @@ (<<"first", "run2">> :> g1A_g2A)
    @@ (<<"second", "run1">> :> g1A_g2B)
    @@ (<<"second", "run2">> :> g1A_g2A)
    \* consensus clusters; second/tight.b does not exist, first/tight.c is
    \* malformed
    @@ (<<"first", "tight.a">> :> g1A_g2B)
    @@ (<<"first", "tight.b">> :> g1A_g2C)
    @@ (<<"first", "tight.c">> :> g1_only)
    @@ (<<"second", "tight.a">> :> g1A_g2B)
    \* regulators and module networks; second/mod.b.randomreg.txt is malformed
    @@ (<<"first", "mod.a", "allreg.txt">> :> r1_0)
    @@ (<<"first", "mod.a", "topreg.txt">> :> r1_0)
    @@ (<<"first", "mod.a", "randomreg.txt">> :> r1_0)
    @@ (<<"first", "mod.a", "xml.gz">> :> OneChild)
    @@ (<<"second", "mod.a", "allreg.txt">> :> r1_0)
    @@ (<<"second", "mod.a", "topreg.txt">> :> r1_0)
    @@ (<<"second", "mod.a", "randomreg.txt">> :> r1_0)
    @@ (<<"second", "mod.a", "xml.gz">> :> OneChild)
    @@ (<<"first", "mod.b", "allreg.txt">> :> r1_0)
    @@ (<<"first", "mod.b", "topreg.txt">> :> r1_2)
    @@ (<<"first", "mod.b", "randomreg.txt">> :> r1_0)
    @@ (<<"first", "mod.b", "xml.gz">> :> MovedChild)
    @@ (<<"second", "mod.b", "allreg.txt">> :> r1_0)
    @@ (<<"second", "mod.b", "topreg.txt">> :> r1_0)
    @@ (<<"second", "mod.b", "randomreg.txt">> :> <<<<"r1", "m1">>>>)
    @@ (<<"second", "mod.b", "xml.gz">> :> OneChild)
    \* the module networks of mod.c cannot be read
    @@ (<<"first", "mod.c", "allreg.txt">> :> r1_0)
    @@ (<<"first", "mod.c", "topreg.txt">> :> r1_0)
    @@ (<<"first", "mod.c", "randomreg.txt">> :> r1_0)
    @@ (<<"first", "mod.c", "xml.gz">> :> NotGzipped)
    @@ (<<"second", "mod.c", "allreg.txt">> :> r1_0)
    @@ (<<"second", "mod.c", "topreg.txt">> :> r1_0)
    @@ (<<"second", "mod.c", "randomreg.txt">> :> r1_0)
    @@ (<<"second", "mod.c", "xml.gz">> :> NotWellFormed)

\* open(path) succeeds
exists(path) == path \in DOMAIN Disk

\* os.path.join(dir, name)
join(dir, name) == <<dir, name>>

(* -------------------------------------------------------- compare_configs *)
\* firstconfigs, secondconfigs: the keys of the task other than output_file;
\* the WARNING lines printed
compare_configs(task, firstconfigs, secondconfigs) ==
    \* secondconfigs.pop(name, None) is None
    {<<"Second configs do not contain the key", task, name>> :
        name \in DOMAIN firstconfigs \ DOMAIN secondconfigs}
    \* firstval != secondval
    \cup {<<"Mismatch in configs", task, name>> :
            name \in {n \in DOMAIN firstconfigs \cap DOMAIN secondconfigs :
                        firstconfigs[n] # secondconfigs[n]}}
    \* what is left in secondconfigs after the pops
    \cup {<<"First configs do not contain key", task, name>> :
            name \in DOMAIN secondconfigs \ DOMAIN firstconfigs}

(* ----------------------------------------------------- read_task_outputs *)
OutputPath_only_null(dir, out) == IF out = null THEN None ELSE join(dir, out)

\* join(dir, out) if out else None
OutputPath(dir, out) == IF out = null \/ out = "" THEN None ELSE join(dir, out)

SameTasksByName(firstconfigs, secondconfigs) ==
    LET matched == {k \in DOMAIN firstconfigs :
                       \E j \in DOMAIN secondconfigs :
                           secondconfigs[j].task = firstconfigs[k].task}
        partner(k) == CHOOSE j \in DOMAIN secondconfigs :
                          secondconfigs[j].task = firstconfigs[k].task
        all == [k \in DOMAIN firstconfigs |->
                   IF k \in matched THEN <<firstconfigs[k], secondconfigs[partner(k)]>>
                   ELSE <<firstconfigs[k], firstconfigs[k]>>]
        marked == [k \in DOMAIN all |-> <<all[k][1], all[k][2], k \in matched>>]
        kept == SelectSeq(marked, LAMBDA triple : triple[3])
    IN  [k \in DOMAIN kept |-> <<kept[k][1], kept[k][2]>>]

\* the zipped pairs of tasks with the same name on both sides, in order
SameTasks(firstconfigs, secondconfigs) ==
    LET n == IF Len(firstconfigs) < Len(secondconfigs)
             THEN Len(firstconfigs) ELSE Len(secondconfigs)
        zipped == [k \in 1..n |-> <<firstconfigs[k], secondconfigs[k]>>]
    IN  SelectSeq(zipped, LAMBDA pair : pair[1].task = pair[2].task)

read_task_outputs_strict(firstconfigs, secondconfigs) ==
    LET same == SameTasks(firstconfigs, secondconfigs)
        drift(k) == same[k][1].params # same[k][2].params
    IN  [k \in DOMAIN same |->
            [task |-> same[k][1].task,
             first |-> IF drift(k) THEN None
                       ELSE OutputPath("first", same[k][1].output_file),
             second |-> OutputPath("second", same[k][2].output_file)]]

read_task_outputs(firstconfigs, secondconfigs) ==
    LET same == SameTasks(firstconfigs, secondconfigs)
    IN  [k \in DOMAIN same |->
            [task |-> same[k][1].task,
             first |-> OutputPath("first", same[k][1].output_file),
             second |-> OutputPath("second", same[k][2].output_file)]]

\* the WARNING lines of read_task_outputs: the ones of compare_configs for
\* the zipped pairs with the same task, one line for every other zipped pair
ConfigWarnings(firstconfigs, secondconfigs) ==
    LET n == IF Len(firstconfigs) < Len(secondconfigs)
             THEN Len(firstconfigs) ELSE Len(secondconfigs)
    IN  UNION {IF firstconfigs[k].task = secondconfigs[k].task
               THEN compare_configs(firstconfigs[k].task,
                                    firstconfigs[k].params, secondconfigs[k].params)
               ELSE {<<"Mismatch in tasks", firstconfigs[k].task, secondconfigs[k].task>>} :
               k \in 1..n}

\* the output_file values behind each entry of task_outputs
DeclaredOutputs(firstconfigs, secondconfigs) ==
    LET same == SameTasks(firstconfigs, secondconfigs)
    IN  [k \in DOMAIN same |-> <<same[k][1].output_file, same[k][2].output_file>>]

(* ------------------------------------------- the comparisons of one task *)
\* the files a function opens that opens firstfile and then secondfile
Opens(firstfile, secondfile) ==
    IF exists(firstfile) THEN <<firstfile, secondfile>> ELSE <<firstfile>>

\* a comparison made for a task: the comparator, its two files, the files
\* it opened, its result
Call(function, firstfile, secondfile, files, result) ==
    [function |-> function, first |-> firstfile, second |-> secondfile,
     opened |-> files, raised |-> result.raised, value |-> result.value]

\* with open(firstfile) as ff, open(secondfile) as sf, then compare_clusters
clusters_of_files(firstfile, secondfile) ==
    IF ~exists(firstfile) \/ ~exists(secondfile) THEN Raised("FileNotFoundError")
    ELSE compare_clusters(Disk[firstfile], Disk[secondfile])

\* read_regulators reads the first file before the second one is opened
RegulatorsOpens(firstfile, secondfile) ==
    IF exists(firstfile) /\ RegulatorsOk(Disk[firstfile])
    THEN <<firstfile, secondfile>> ELSE <<firstfile>>

\* read_regulators of the first file, of the second, then compare_regulators
regulators_of_files(firstfile, secondfile) ==
    IF ~exists(firstfile) THEN Raised("FileNotFoundError")
    ELSE IF ~RegulatorsOk(Disk[firstfile]) THEN Raised("ValueError")
    ELSE IF ~exists(secondfile) THEN Raised("FileNotFoundError")
    ELSE compare_regulators(Disk[firstfile], Disk[secondfile])

\* read_xml_tree reads the first file before the second one is opened
XmlOpens(firstfile, secondfile) ==
    IF exists(firstfile) /\ Disk[firstfile].error = None
    THEN <<firstfile, secondfile>> ELSE <<firstfile>>

\* read_xml_tree of the first file, of the second, then compare_xml_trees of
\* the roots
xml_trees_of_files(firstfile, secondfile) ==
    IF ~exists(firstfile) THEN Raised("FileNotFoundError")
    ELSE IF Disk[firstfile].error # None THEN Raised(Disk[firstfile].error)
    ELSE IF ~exists(secondfile) THEN Raised("FileNotFoundError")
    ELSE IF Disk[secondfile].error # None THEN Raised(Disk[secondfile].error)
    ELSE LET result == compare_xml_trees(Disk[firstfile].root, Disk[secondfile].root, <<>>)
         IN  Returned(result.value, result.printed)

RECURSIVE OpenedIn(_)
\* the files the comparisons opened, in order
OpenedIn(comparisons) ==
    IF comparisons = <<>> THEN <<>>
    ELSE Head(comparisons).opened \o OpenedIn(Tail(comparisons))

InTurnUntilFalse(comparisons) ==
    LET stopping == {k \in DOMAIN comparisons :
                        comparisons[k].raised # None \/ ~comparisons[k].value}
        last == IF stopping = {} THEN Len(comparisons)
                ELSE CHOOSE k \in stopping : \A j \in stopping : k <= j
    IN  [raised |-> IF stopping = {} THEN None ELSE comparisons[last].raised,
         value |-> stopping = {},
         calls |-> SubSeq(comparisons, 1, last),
         opened |-> OpenedIn(SubSeq(comparisons, 1, last))]

InTurnLast(comparisons) ==
    LET raising == {k \in DOMAIN comparisons : comparisons[k].raised # None}
        last == IF raising = {} THEN Len(comparisons)
                ELSE CHOOSE k \in raising : \A j \in raising : k <= j
    IN  [raised |-> IF raising = {} THEN None ELSE comparisons[last].raised,
         value |-> raising = {} /\ (comparisons = <<>> \/ comparisons[last].value),
         calls |-> SubSeq(comparisons, 1, last),
         opened |-> OpenedIn(SubSeq(comparisons, 1, last))]

\* match = True; match &= each comparison in turn; the first one that raises
\* ends the function: the comparisons made, and the returned value
InTurn(comparisons) ==
    LET raising == {k \in DOMAIN comparisons : comparisons[k].raised # None}
        last == IF raising = {} THEN Len(comparisons)
                ELSE CHOOSE k \in raising : \A j \in raising : k <= j
    IN  [raised |-> IF raising = {} THEN None ELSE comparisons[last].raised,
         value |-> raising = {} /\ \A k \in DOMAIN comparisons : comparisons[k].value,
         calls |-> SubSeq(comparisons, 1, last),
         opened |-> OpenedIn(SubSeq(comparisons, 1, last))]

compare_ganesh_zip_shortest(firstout, secondout) ==
    IF ~exists(firstout) \/ ~exists(secondout)
    THEN [raised |-> "FileNotFoundError", value |-> FALSE, calls |-> <<>>,
          opened |-> Opens(firstout, secondout)]
    ELSE LET firstfiles == Disk[firstout]
             secondfiles == Disk[secondout]
             zipped == DOMAIN firstfiles \cap DOMAIN secondfiles
             runs == InTurn([k \in zipped |->
                        Call("compare_clusters", firstfiles[k], secondfiles[k],
                             Opens(firstfiles[k], secondfiles[k]),
                             clusters_of_files(firstfiles[k], secondfiles[k]))])
         IN  [runs EXCEPT !.opened = <<firstout, secondout>> \o runs.opened]

compare_ganesh(firstout, secondout) ==
    IF ~exists(firstout) \/ ~exists(secondout)
    THEN [raised |-> "FileNotFoundError", value |-> FALSE, calls |-> <<>>,
          opened |-> Opens(firstout, secondout)]
    ELSE LET firstfiles == Disk[firstout]
             secondfiles == Disk[secondout]
             runs == InTurn([k \in DOMAIN firstfiles |->
                        Call("compare_clusters", firstfiles[k], secondfiles[k],
                             Opens(firstfiles[k], secondfiles[k]),
                             clusters_of_files(firstfiles[k], secondfiles[k]))])
         IN  IF Len(firstfiles) # Len(secondfiles)
             THEN [raised |-> None, value |-> FALSE, calls |-> <<>>,
                   opened |-> <<firstout, secondout>>]
             ELSE [runs EXCEPT !.opened = <<firstout, secondout>> \o runs.opened]

compare_consensus(firstout, secondout) ==
    InTurn(<<Call("compare_clusters", firstout, secondout, Opens(firstout, secondout),
                  clusters_of_files(firstout, secondout))>>)

\* '%s.%sreg.txt' % (out, ext) and '%s.xml.gz' % out
Suffixed(out, suffix) == Append(out, suffix)

compare_modules_top_first(firstout, secondout) ==
    InTurn([k \in 1..4 |->
        IF k = 4
        THEN Call("compare_xml_trees",
                  Suffixed(firstout, "xml.gz"), Suffixed(secondout, "xml.gz"),
                  XmlOpens(Suffixed(firstout, "xml.gz"), Suffixed(secondout, "xml.gz")),
                  xml_trees_of_files(Suffixed(firstout, "xml.gz"),
                                     Suffixed(secondout, "xml.gz")))
        ELSE LET ext == <<"topreg.txt", "allreg.txt", "randomreg.txt">>[k]
             IN  Call("compare_regulators",
                      Suffixed(firstout, ext), Suffixed(secondout, ext),
                      RegulatorsOpens(Suffixed(firstout, ext), Suffixed(secondout, ext)),
                      regulators_of_files(Suffixed(firstout, ext),
                                          Suffixed(secondout, ext)))])

compare_modules(firstout, secondout) ==
    InTurn([k \in 1..4 |->
        IF k = 4
        THEN Call("compare_xml_trees",
                  Suffixed(firstout, "xml.gz"), Suffixed(secondout, "xml.gz"),
                  XmlOpens(Suffixed(firstout, "xml.gz"), Suffixed(secondout, "xml.gz")),
                  xml_trees_of_files(Suffixed(firstout, "xml.gz"),
                                     Suffixed(secondout, "xml.gz")))
        ELSE LET ext == <<"allreg.txt", "topreg.txt", "randomreg.txt">>[k]
             IN  Call("compare_regulators",
                      Suffixed(firstout, ext), Suffixed(secondout, ext),
                      RegulatorsOpens(Suffixed(firstout, ext), Suffixed(secondout, ext)),
                      regulators_of_files(Suffixed(firstout, ext),
                                          Suffixed(secondout, ext)))])

(* ------------------------------------------------------------------ main *)
InitMain ==
    /\ TOLERANCE = DefaultTolerance
    /\ pc = "parse_args"
    /\ first = "first"
    /\ second = "second"
    /\ ret = NotCalled
    /\ MainIdle
    /\ ExperimentIdle

\* --tolerance TOL, or no option
ParseArgs ==
    /\ pc = "parse_args"
    /\ \E tolerance \in {<<>>} \cup {<<tol>> : tol \in Tolerances} :
          TOLERANCE' = IF tolerance = <<>> THEN TOLERANCE ELSE tolerance[1]
    /\ pc' = "read_task_outputs"
    /\ UNCHANGED <<first, second, ret, mvars, evars>>

\* task_outputs = read_task_outputs(args.first, args.second); match = True
ReadTaskOutputs ==
    /\ pc = "read_task_outputs"
    /\ \E firstfile \in Configs(first), secondfile \in Configs(second), params \in Params :
          LET firstconfigs == WithParams(firstfile, params[1])
              secondconfigs == WithParams(secondfile, params[2])
          IN  /\ task_outputs' = read_task_outputs(firstconfigs, secondconfigs)
              /\ declared' = DeclaredOutputs(firstconfigs, secondconfigs)
              /\ warnings' = ConfigWarnings(firstconfigs, secondconfigs)
    /\ status' = [k \in DOMAIN task_outputs' |-> "Pending"]
    /\ position' = 1
    /\ match' = TRUE
    /\ pc' = "loop"
    /\ UNCHANGED <<TOLERANCE, first, second, ret, calls, opened, exception, evars>>

\* the loop is at a task
AtTask == pc = "loop" /\ position <= Len(task_outputs)

Skipping == task_outputs[position].first = None \/ task_outputs[position].second = None

\* if first is None or second is None: continue
SkipTask ==
    /\ AtTask
    /\ Skipping
    /\ status' = [status EXCEPT ![position] = "Skipped"]
    /\ position' = position + 1
    /\ UNCHANGED <<cvars, task_outputs, declared, match, calls, opened, warnings, exception,
                   evars>>

\* the comparisons of the task, numbered with its position
Numbered(comparisons) ==
    [k \in DOMAIN comparisons |-> [position |-> position] @@ comparisons[k]]

FoldCaught(result) ==
    /\ calls' = calls \o Numbered(result.calls)
    /\ opened' = opened \o result.opened
    /\ match' = (match /\ result.raised = None /\ result.value)
    /\ status' = [status EXCEPT ![position] =
                      IF result.raised = None /\ result.value
                      THEN "Matched" ELSE "Mismatched"]
    /\ position' = position + 1
    /\ UNCHANGED <<pc, exception>>
    /\ UNCHANGED <<TOLERANCE, first, second, ret, task_outputs, declared, warnings, evars>>

FoldOverwrite(result) ==
    /\ calls' = calls \o Numbered(result.calls)
    /\ opened' = opened \o result.opened
    /\ IF result.raised # None
       THEN /\ exception' = result.raised
            /\ pc' = "raised"
            /\ status' = [status EXCEPT ![position] = "Running"]
            /\ UNCHANGED <<match, position>>
       ELSE /\ match' = result.value
            /\ status' = [status EXCEPT ![position] =
                              IF result.value THEN "Matched" ELSE "Mismatched"]
            /\ position' = position + 1
            /\ UNCHANGED <<pc, exception>>
    /\ UNCHANGED <<TOLERANCE, first, second, ret, task_outputs, declared, warnings, evars>>

\* match &= <the comparator of the task>; an exception leaves main
Fold(result) ==
    /\ calls' = calls \o Numbered(result.calls)
    /\ opened' = opened \o result.opened
    /\ IF result.raised # None
       THEN /\ exception' = result.raised
            /\ pc' = "raised"
            /\ status' = [status EXCEPT ![position] = "Running"]
            /\ UNCHANGED <<match, position>>
       ELSE /\ match' = (match /\ result.value)
            /\ status' = [status EXCEPT ![position] =
                              IF result.value THEN "Matched" ELSE "Mismatched"]
            /\ position' = position + 1
            /\ UNCHANGED <<pc, exception>>
    /\ UNCHANGED <<TOLERANCE, first, second, ret, task_outputs, declared, warnings, evars>>

CompareGanesh ==
    /\ AtTask
    /\ ~Skipping
    /\ task_outputs[position].task = "ganesh"
    /\ Fold(compare_ganesh(task_outputs[position].first, task_outputs[position].second))

CompareConsensus ==
    /\ AtTask
    /\ ~Skipping
    /\ task_outputs[position].task = "tight_clusters"
    /\ Fold(compare_consensus(task_outputs[position].first, task_outputs[position].second))

CompareModules ==
    /\ AtTask
    /\ ~Skipping
    /\ task_outputs[position].task = "regulators"
    /\ Fold(compare_modules(task_outputs[position].first, task_outputs[position].second))

NoComparatorDefault ==
    /\ AtTask
    /\ ~Skipping
    /\ task_outputs[position].task \notin {"ganesh", "tight_clusters", "regulators"}
    /\ Fold(compare_consensus(task_outputs[position].first, task_outputs[position].second))

\* a task that is none of the three: nothing is compared
NoComparator ==
    /\ AtTask
    /\ ~Skipping
    /\ task_outputs[position].task \notin {"ganesh", "tight_clusters", "regulators"}
    /\ status' = [status EXCEPT ![position] = "Matched"]
    /\ position' = position + 1
    /\ UNCHANGED <<cvars, task_outputs, declared, match, calls, opened, warnings, exception,
                   evars>>

\* assert match, 'Mismatches found in the output files'
AssertMatch ==
    /\ pc = "loop"
    /\ position > Len(task_outputs)
    /\ IF match
       THEN pc' = "done" /\ UNCHANGED exception
       ELSE pc' = "raised" /\ exception' = "AssertionError"
    /\ UNCHANGED <<evars, TOLERANCE, first, second, ret, task_outputs, declared, position,
                   match, status, calls, opened, warnings>>

NextMain ==
    \/ ParseArgs
    \/ ReadTaskOutputs
    \/ SkipTask
    \/ CompareGanesh
    \/ CompareConsensus
    \/ CompareModules
    \/ NoComparator
    \/ AssertMatch

SpecMain == InitMain /\ [][NextMain]_vars

(* ------------------------------------------ read_task_outputs, one call *)
\* first, second: the two loaded configs.json files
InitConfigs ==
    /\ TOLERANCE = DefaultTolerance
    /\ pc = "read_task_outputs"
    /\ \E firstfile \in Configs("first"), secondfile \in Configs("second"),
          params \in Params :
          /\ first = WithParams(firstfile, params[1])
          /\ second = WithParams(secondfile, params[2])
    /\ ret = NotCalled
    /\ MainIdle
    /\ ExperimentIdle

\* value: the task_outputs returned; printed: the WARNING lines
ReadConfigs ==
    /\ pc = "read_task_outputs"
    /\ ret' = Returned(read_task_outputs(first, second), ConfigWarnings(first, second))
    /\ pc' = "returned_task_outputs"
    /\ UNCHANGED <<TOLERANCE, first, second, mvars, evars>>

NextConfigs == ReadConfigs

SpecConfigs == InitConfigs /\ [][NextConfigs]_vars

(***************************************************************************)
(* run_experiment of run_experiments.py: the loop that runs one            *)
(* configuration `repeat` times.  The output of an invocation is the       *)
(* sequence of its 'Time taken in <action>: <seconds>' lines, each a pair  *)
(* <<action, seconds>>.                                                    *)
(***************************************************************************)
MaxRepeat == 3

MAX_RETRIES == 1

\* the runtimes parse_runtimes requires, in the order it reads them
RequiredActions == <<"reading the file", "getting the network", "writing the network">>

\* what an invocation that exits with status 0 can have printed: a run, a run
\* that also warms up MPI, and a run that printed no time for the writing
Outputs ==
    { << <<"reading the file", 1>>, <<"getting the network", 5>>,
         <<"writing the network", 2>> >>,
      << <<"warming up MPI", 3>>, <<"reading the file", 1>>,
         <<"getting the network", 7>>, <<"writing the network", 2>> >>,
      << <<"reading the file", 1>>, <<"getting the network", 5>> >> }

\* the lines of out that re.search can match for the action
Matching(action, out) == SelectSeq(out, LAMBDA line : line[1] = action)

\* get_runtime(action, output, required=False); with required=True the value
\* is the same when there is a match, and match.group raises when there is none
get_runtime(action, out) ==
    IF Matching(action, out) # <<>> THEN Matching(action, out)[1][2] ELSE 0

parse_runtimes(out) ==
    IF \E k \in DOMAIN RequiredActions : Matching(RequiredActions[k], out) = <<>>
    THEN Raised("AttributeError")
    ELSE Returned(<< get_runtime("warming up MPI", out),
                     get_runtime("reading the file", out),
                     get_runtime("redistributing", out),
                     get_runtime("getting the blankets", out),
                     get_runtime("symmetry correcting the blankets", out),
                     get_runtime("synchronizing the blankets", out),
                     get_runtime("getting the neighbors", out),
                     get_runtime("directing the edges", out),
                     get_runtime("mxx calls", out),
                     get_runtime("G-square computations", out),
                     get_runtime("getting the network", out),
                     get_runtime("writing the network", out) >>, {})

\* r = 0, t = 0 and the empty list, before the first test of the loop
InitExperiment ==
    /\ TOLERANCE = DefaultTolerance
    /\ pc = "while"
    /\ first = <<>>
    /\ second = <<>>
    /\ ret = NotCalled
    /\ MainIdle
    /\ repeat \in -1..MaxRepeat
    /\ comparing \in BOOLEAN
    /\ r = 0
    /\ t = 0
    /\ runtimes = <<>>
    /\ output = <<>>
    /\ invocations = <<>>
    /\ retries = 0

\* check_output returns: the else branch of the try statement
CheckOutputReturns ==
    /\ pc = "while"
    /\ r < repeat
    /\ \E out \in Outputs :
          /\ output' = out
          /\ invocations' = Append(invocations, [ok |-> TRUE, output |-> out])
    /\ t' = 0
    /\ pc' = IF comparing THEN "check_call" ELSE "parse_runtimes"
    /\ UNCHANGED <<TOLERANCE, first, second, ret, mvars, repeat, comparing, r, runtimes,
                   retries>>

\* as CheckOutputFails, with 'if t > MAX_RETRIES'
CheckOutputFailsLate ==
    /\ pc = "while"
    /\ r < repeat
    /\ invocations' = Append(invocations, [ok |-> FALSE, output |-> <<>>])
    /\ t' = t + 1
    /\ IF t' > MAX_RETRIES
       THEN /\ pc' = "raised"
            /\ ret' = Raised("CalledProcessError")
            /\ UNCHANGED retries
       ELSE /\ pc' = "while"
            /\ retries' = retries + 1
            /\ UNCHANGED ret
    /\ UNCHANGED <<TOLERANCE, first, second, mvars, repeat, comparing, r, runtimes, output>>

\* check_output raises CalledProcessError: the except branch
CheckOutputFails ==
    /\ pc = "while"
    /\ r < repeat
    /\ invocations' = Append(invocations, [ok |-> FALSE, output |-> <<>>])
    /\ t' = t + 1
    /\ IF t' = MAX_RETRIES
       THEN /\ pc' = "raised"
            /\ ret' = Raised("CalledProcessError")
            /\ UNCHANGED retries
       ELSE /\ pc' = "while"
            /\ retries' = retries + 1
            /\ UNCHANGED ret
    /\ UNCHANGED <<TOLERANCE, first, second, mvars, repeat, comparing, r, runtimes, output>>

\* check_call of compare_dot, outside the try statement: it returns, or its
\* CalledProcessError leaves run_experiment
CheckCall ==
    /\ pc = "check_call"
    /\ \E status_0 \in BOOLEAN :
          IF status_0
          THEN pc' = "parse_runtimes" /\ UNCHANGED ret
          ELSE pc' = "raised" /\ ret' = Raised("CalledProcessError")
    /\ UNCHANGED <<TOLERANCE, first, second, mvars, evars>>

\* runtimes.append(parse_runtimes(output)); r += 1
AppendRuntimes ==
    /\ pc = "parse_runtimes"
    /\ IF parse_runtimes(output).raised = None
       THEN /\ runtimes' = Append(runtimes, parse_runtimes(output).value)
            /\ r' = r + 1
            /\ pc' = "while"
            /\ UNCHANGED ret
       ELSE /\ pc' = "raised"
            /\ ret' = parse_runtimes(output)
            /\ UNCHANGED <<runtimes, r>>
    /\ UNCHANGED <<TOLERANCE, first, second, mvars, repeat, comparing, t, output,
                   invocations, retries>>

\* the loop test fails: return runtimes
ReturnRuntimes ==
    /\ pc = "while"
    /\ ~(r < repeat)
    /\ ret' = Returned(runtimes, {})
    /\ pc' = "returned_runtimes"
    /\ UNCHANGED <<TOLERANCE, first, second, mvars, evars>>

NextExperiment ==
    \/ CheckOutputReturns
    \/ CheckOutputFails
    \/ CheckCall
    \/ AppendRuntimes
    \/ ReturnRuntimes

SpecExperiment == InitExperiment /\ [][NextExperiment]_vars

(***************************************************************************)
(* Properties of the two key/value comparators                             *)
(***************************************************************************)
ClustersReturned == pc = "returned_clusters" /\ ret.raised = None

RegulatorsReturned == pc = "returned_regulators" /\ ret.raised = None

\* the mappings the comparator built from the two files of the current call
Reference == IF pc = "returned_clusters" THEN Dict(first) ELSE read_regulators(first)

Candidate == IF pc = "returned_clusters" THEN Dict(second) ELSE read_regulators(second)

\* a value of the reference and one of the candidate count as equal
SameValue(a, b) == IF pc = "returned_clusters" THEN a = b ELSE abs(a - b) < TOLERANCE

\* every reference key is in the candidate with an equal value
ReferenceCovered ==
    \A key \in DOMAIN Reference :
        key \in DOMAIN Candidate /\ SameValue(Reference[key], Candidate[key])

\* C2: whenever a key of the reference is absent from the candidate,
\* compare_clusters / compare_regulators return False.
C2_MissingKeyFails ==
    (ClustersReturned \/ RegulatorsReturned) =>
        ((DOMAIN Reference \ DOMAIN Candidate # {}) => ret.value = FALSE)

C4_LiteralLabels ==
    (ClustersReturned /\ DOMAIN Dict(first) = DOMAIN Dict(second)) =>
        (ret.value = TRUE <=>
            \A item \in DOMAIN Dict(first) : Dict(first)[item] = Dict(second)[item])

\* the same grouping of two items under exchanged label names is a mismatch
C4_Witness ==
    /\ ClustersReturned
    /\ DOMAIN Dict(first) = Items
    /\ DOMAIN Dict(second) = Items
    /\ Dict(first)["g1"] # Dict(first)["g2"]
    /\ Dict(second)["g1"] = Dict(first)["g2"]
    /\ Dict(second)["g2"] = Dict(first)["g1"]
    /\ ret.value = FALSE

\* C5: a (subject, group) pair present on both sides is reported as a score
\* mismatch, and makes the result False, exactly when the absolute
\* difference of the two scores is at least the tolerance.
C5_ToleranceBoundary ==
    RegulatorsReturned =>
        \A vc \in DOMAIN read_regulators(first) \cap DOMAIN read_regulators(second) :
            LET diff == abs(read_regulators(first)[vc] - read_regulators(second)[vc])
            IN  /\ diff >= TOLERANCE => (<<"Mismatch in score", vc>> \in ret.printed
                                            /\ ret.value = FALSE)
                /\ diff < TOLERANCE => <<"Mismatch in score", vc>> \notin ret.printed

\* a difference of exactly the (positive) tolerance, reported as a mismatch
C5_Witness ==
    /\ RegulatorsReturned
    /\ TOLERANCE > 0
    /\ \E vc \in DOMAIN read_regulators(first) \cap DOMAIN read_regulators(second) :
          /\ abs(read_regulators(first)[vc] - read_regulators(second)[vc]) = TOLERANCE
          /\ <<"Mismatch in score", vc>> \in ret.printed
    /\ ret.value = FALSE

(***************************************************************************)
(* Properties of the tree and graph comparators                            *)
(***************************************************************************)
XmlTreesReturned == pc = "returned_xml_trees"

GraphsReturned == pc = "returned_compare"

\* C6: comparing an artifact with itself is a full match for all four
\* comparators (for a positive tolerance): True for partitions, scored
\* assignments and trees, (number of edges, 0, 0) for graphs, also when the
\* file lists a key or an edge more than once.
C6_Reflexive ==
    (first = second /\ TOLERANCE > 0) =>
        /\ ClustersReturned => ret.value = TRUE
        /\ RegulatorsReturned => ret.value = TRUE
        /\ XmlTreesReturned => ret.value = TRUE
        /\ GraphsReturned => ret.value = <<Len(first.edges), 0, 0>>

\* the second tree is the first with the root's children i and j exchanged
SwappedAt(i, j) ==
    /\ i \in DOMAIN first.children
    /\ j \in DOMAIN first.children
    /\ i < j
    /\ second = [first EXCEPT !.children =
                    [k \in DOMAIN first.children |->
                        IF k = i THEN first.children[j]
                        ELSE IF k = j THEN first.children[i]
                        ELSE first.children[k]]]

\* an ERROR line is printed while the subtrees at child position k are compared
ReportedAt(k) == \E line \in ret.printed : Len(line[1]) >= 1 /\ line[1][1] = k

\* C7 as stated: exchanging two sibling subtrees that are not equal makes
\* compare_xml_trees return False and report a mismatch at the second of
\* the two positions.
C7_SwapUnequalSiblings ==
    XmlTreesReturned =>
        \A i, j \in DOMAIN first.children :
            (SwappedAt(i, j) /\ first.children[i] # first.children[j]) =>
                (ret.value = FALSE /\ ReportedAt(j))

\* C7 amended: exchanging two sibling subtrees that do not match each other
\* under compare_xml_trees makes the comparison return False; when the
\* parent passes its own node checks, a mismatch is reported at both
\* exchanged positions, the second included.
C7_SwapMismatchingSiblings ==
    XmlTreesReturned =>
        \A i, j \in DOMAIN first.children :
            (SwappedAt(i, j)
                /\ ~compare_xml_trees(first.children[i], first.children[j], <<>>).value) =>
                    /\ ret.value = FALSE
                    /\ NodeError(first, second) = "" => (ReportedAt(i) /\ ReportedAt(j))

\* two attribute values that both parse as numbers and differ by less than
\* the tolerance
NumericallyClose(v1, v2) ==
    /\ Parses(v1) /\ ~IsNan(v1)
    /\ Parses(v2) /\ ~IsNan(v2)
    /\ abs(float(v1) - float(v2)) < TOLERANCE

\* equal values: identical text, or numbers closer than the tolerance
EqualValues(v1, v2) == v1 = v2 \/ NumericallyClose(v1, v2)

RECURSIVE AlignedMatch(_, _)
\* the node checks hold at every pair of positionally aligned nodes
AlignedMatch(e1, e2) ==
    /\ e1.tag = e2.tag
    /\ Len(e1.attrib) = Len(e2.attrib)
    /\ \A k \in DOMAIN e1.attrib :
          /\ e1.attrib[k][1] = e2.attrib[k][1]
          /\ EqualValues(e1.attrib[k][2], e2.attrib[k][2])
    /\ Len(e1.children) = Len(e2.children)
    /\ \A k \in DOMAIN e1.children : AlignedMatch(e1.children[k], e2.children[k])

\* C13: compare_xml_trees returns True iff at every pair of aligned nodes
\* the tags, the attribute counts, the attributes in order (same key, equal
\* value: identical text or numbers closer than the tolerance) and the child
\* counts agree.
C13_AlignedNodes ==
    XmlTreesReturned => (ret.value <=> AlignedMatch(first, second))


RECURSIVE NodeAt(_, _)
\* the element reached from e by a path of child indices
NodeAt(e, path) ==
    IF path = <<>> THEN e ELSE NodeAt(e.children[Head(path)], Tail(path))

\* q is below p
Below(p, q) == Len(q) > Len(p) /\ SubSeq(q, 1, Len(p)) = p

\* C14: the root is visited; a visited pair of nodes that fails its own
\* checks is reported and nothing below it is visited; a visited pair that
\* passes them has every one of its aligned children visited, whatever the
\* result of the other children.
C14_SubtreeOnly ==
    XmlTreesReturned =>
        /\ <<>> \in ret.visited
        /\ \A p \in ret.visited :
              LET e1 == NodeAt(first, p)
                  e2 == NodeAt(second, p)
              IN  IF NodeError(e1, e2) # ""
                  THEN /\ <<p, NodeError(e1, e2)>> \in ret.printed
                       /\ \A q \in ret.visited : ~Below(p, q)
                  ELSE \A k \in DOMAIN e1.children : Append(p, k) \in ret.visited

\* the first child fails its tag check and has a child that is not visited;
\* the second child and the child below it are visited
C14_Witness ==
    /\ XmlTreesReturned
    /\ <<<<1>>, "tag">> \in ret.printed
    /\ first.children[1].children # <<>>
    /\ <<1, 1>> \notin ret.visited
    /\ <<2>> \in ret.visited
    /\ <<2, 1>> \in ret.visited
    /\ ~ret.value


C7_Witness ==
    /\ XmlTreesReturned
    /\ SwappedAt(1, 2)
    /\ ~compare_xml_trees(first.children[1], first.children[2], <<>>).value
    /\ NodeError(first, second) = ""
    /\ ret.value = FALSE
    /\ ReportedAt(2)

NoRepeat(s) == \A k, j \in DOMAIN s : s[k] = s[j] => k = j

\* C8: for two directed graphs without repeated edges compare returns
\* (tp, fp, fn) with tp the number of reference edges in the candidate, fn
\* the number of reference edges not in it, fp the candidate's edge count
\* minus tp.
C8_EdgeCounts ==
    (GraphsReturned /\ first.type = "digraph" /\ second.type = "digraph"
        /\ NoRepeat(first.edges) /\ NoRepeat(second.edges)) =>
        LET common == Range(first.edges) \cap Range(second.edges)
        IN  ret.value = <<Cardinality(common),
                          Cardinality(Range(second.edges)) - Cardinality(common),
                          Cardinality(Range(first.edges) \ Range(second.edges))>>

C8_Witness ==
    /\ GraphsReturned
    /\ first.type = "digraph" /\ second.type = "digraph"
    /\ first.edges = <<<<"A", "B">>, <<"B", "C">>>>
    /\ second.edges = <<<<"A", "B">>, <<"C", "D">>>>
    /\ ret.value = <<1, 1, 1>>

\* C9: every reference edge is a true positive whenever the identical
\* directed edge is in the candidate (however often it is listed there) and
\* a false negative only when it is not.
C9_PresenceTest ==
    (GraphsReturned /\ second.type = "digraph") =>
        LET present == {k \in DOMAIN first.edges : first.edges[k] \in Range(second.edges)}
        IN  /\ ret.value[1] = Cardinality(present)
            /\ ret.value[3] = Len(first.edges) - Cardinality(present)
            /\ \A k \in present : <<"Edge not found", first.edges[k]>> \notin ret.printed

\* C23: for a directed candidate, the true positives and the false
\* negatives add up to the number of listed reference edges, and when the
\* reference lists no edge twice the false positives are not negative,
\* however often the candidate lists an edge; so negative false positives
\* need a repeated reference edge.
C23_CountsInRange ==
    (GraphsReturned /\ second.type = "digraph") =>
        /\ ret.value[1] + ret.value[3] = Len(first.edges)
        /\ NoRepeat(first.edges) => ret.value[2] >= 0
        /\ ret.value[2] < 0 => ~NoRepeat(first.edges)

\* a reference without repeated edges, a candidate that lists the second
\* reference edge twice: one true positive, two false positives
C23_Witness ==
    /\ GraphsReturned
    /\ second.type = "digraph"
    /\ first.edges = <<<<"A", "B">>, <<"B", "C">>>>
    /\ second.edges = <<<<"B", "C">>, <<"B", "C">>>>
    /\ ret.value = <<0, 2, 2>>

\* the nodes of the reference that the candidate does not declare
MissingNodes == first.nodes \ second.nodes

\* C19: compare returns, and the triple it returns is the one it returns
\* for the same two edge lists with any other declared nodes on either
\* side; every reference edge is counted, as a true positive or as a false
\* negative; the missing nodes are only printed.
C19_NodesAdvisory ==
    GraphsReturned =>
        /\ ret.raised = None
        /\ \A nodes1, nodes2 \in SUBSET NodeNames :
              ret.value = compare(Graph(first.type, nodes1, first.edges),
                                  Graph(second.type, nodes2, second.edges)).value
        /\ ret.value[1] + ret.value[3] = Len(first.edges)
        /\ MissingNodes # {} <=>
              <<"nodes not found", Cardinality(MissingNodes)>> \in ret.printed

\* a node of the reference is missing from the candidate, and the one edge
\* of the reference is still counted as a true positive
C19_Witness ==
    /\ GraphsReturned
    /\ MissingNodes = {"A"}
    /\ first.edges = <<<<"A", "B">>>>
    /\ second.edges = <<<<"A", "B">>>>
    /\ ret.value = <<1, 0, 0>>

(***************************************************************************)
(* Properties of read_task_outputs                                         *)
(***************************************************************************)
ConfigsReturned == pc = "returned_task_outputs"

\* the positions at which the two files have the same task
SamePositions ==
    {k \in DOMAIN first \cap DOMAIN second : first[k].task = second[k].task}

\* the tasks of the returned task_outputs
ManifestTasks == {ret.value[j].task : j \in DOMAIN ret.value}

\* C21: the returned task_outputs holds exactly the tasks that stand at the
\* same position in both files, once each and in the order of the files, so
\* no more of them than the shorter file has tasks; a task that is in both
\* files but at different positions only is not in it.
C21_PairedByPosition ==
    ConfigsReturned =>
        /\ ManifestTasks = {first[k].task : k \in SamePositions}
        /\ Len(ret.value) = Cardinality(SamePositions)
        /\ Len(ret.value) <= Len(first) /\ Len(ret.value) <= Len(second)
        /\ \A a, b \in DOMAIN ret.value :
              a < b => \E k, j \in SamePositions :
                          /\ k < j
                          /\ first[k].task = ret.value[a].task
                          /\ first[j].task = ret.value[b].task
        /\ \A k \in DOMAIN first, j \in DOMAIN second :
              (first[k].task = second[j].task /\ k # j) =>
                  first[k].task \notin ManifestTasks

\* the first file has a task before ganesh that the second has not: ganesh
\* is in both files and task_outputs is empty
C21_Witness ==
    /\ ConfigsReturned
    /\ Len(first) = 2 /\ first[2].task = "ganesh"
    /\ Len(second) = 1 /\ second[1].task = "ganesh"
    /\ ret.value = <<>>
    /\ ret.printed # {}

(***************************************************************************)
(* Properties of main                                                      *)
(***************************************************************************)
\* every task of the manifest has reached Matched, Mismatched or Skipped
AllTerminal ==
    \A k \in DOMAIN status : status[k] \in {"Matched", "Mismatched", "Skipped"}

SomeMismatched == \E k \in DOMAIN status : status[k] = "Mismatched"

\* C1: the run ends with the final assertion raising exactly when some task
\* that was not skipped is Mismatched, and ends in success exactly when
\* every task is Matched or Skipped: the verdict is the AND of the match
\* status of the tasks that were compared.
C1_Verdict ==
    pc \in {"done", "raised"} =>
        /\ (pc = "raised" /\ exception = "AssertionError") <=> (AllTerminal /\ SomeMismatched)
        /\ pc = "done" <=> (AllTerminal /\ ~SomeMismatched)
        /\ AllTerminal => (match <=> ~SomeMismatched)

\* a Mismatched task followed by a Matched one, and the assertion raised
C1_Witness ==
    /\ pc = "raised"
    /\ exception = "AssertionError"
    /\ Len(status) = 2
    /\ status[1] = "Mismatched"
    /\ status[2] = "Matched"
    /\ calls # <<>>

\* one side of the task at the loop's position declared no output file
DeclaredAbsent ==
    \/ declared[position][1] \in {null, ""}
    \/ declared[position][2] \in {null, ""}

\* C10: a task for which either side declares an empty or null output_file
\* goes to Skipped: the step makes no comparison and opens no file, leaves
\* the match flag as it was, and the loop goes on with the next task.
C10_SkippedTask ==
    [][(AtTask /\ DeclaredAbsent) =>
            /\ status' = [status EXCEPT ![position] = "Skipped"]
            /\ calls' = calls
            /\ opened' = opened
            /\ match' = match
            /\ pc' = "loop"
            /\ position' = position + 1
            /\ exception' = exception]_vars

\* a task skipped for an empty output_file, and the next task compared
C10_Witness ==
    /\ Len(status) = 2
    /\ "" \in {declared[1][1], declared[1][2]}
    /\ null \notin {declared[1][1], declared[1][2]}
    /\ status[1] = "Skipped"
    /\ status[2] = "Mismatched"
    /\ \E k \in DOMAIN calls : calls[k].position = 2
    /\ opened # <<>>
    /\ match = FALSE

\* the task at position k is one whose output path is itself opened, both
\* sides declare it, and one of the two files is not on the disk
MissingOnDisk(k) ==
    /\ task_outputs[k].task \in {"ganesh", "tight_clusters"}
    /\ task_outputs[k].first # None
    /\ task_outputs[k].second # None
    /\ ~(exists(task_outputs[k].first) /\ exists(task_outputs[k].second))

\* C11: a task whose declared output file is missing on the disk is never
\* started and never ends the run: it is not left Running or Mismatched, and
\* the run does not stop at it with an exception.
C11_MissingFileIsDrift ==
    \A k \in DOMAIN status :
        MissingOnDisk(k) =>
            /\ status[k] \notin {"Running", "Mismatched"}
            /\ ~(pc = "raised" /\ position = k /\ exception # "AssertionError")

\* what the readers raise on a file they cannot read
FormatErrors == {"ValueError", "BadGzipFile", "ParseError"}

\* the file is on the disk and the reader of this comparator cannot read it
Malformed(function, path) ==
    /\ exists(path)
    /\ CASE function = "compare_clusters" -> ~DictOk(Disk[path])
         [] function = "compare_regulators" -> ~RegulatorsOk(Disk[path])
         [] function = "compare_xml_trees" -> Disk[path].error # None

\* the run has ended with a format error
FormatErrorRaised == pc = "raised" /\ exception \in FormatErrors

\* C12: a comparison one of whose two files is malformed raises a format
\* error; a comparison that raises is the last one made, and its exception
\* leaves main at once: the task stays Running, every later task stays
\* Pending, the assertion is not evaluated, and nothing happens afterwards.
C12_FormatErrorAborts ==
    /\ [](\A k \in DOMAIN calls :
            /\ (/\ exists(calls[k].first)
                /\ exists(calls[k].second)
                /\ \/ Malformed(calls[k].function, calls[k].first)
                   \/ Malformed(calls[k].function, calls[k].second))
                  => calls[k].raised \in FormatErrors
            /\ calls[k].raised # None =>
                  /\ k = Len(calls)
                  /\ pc = "raised"
                  /\ exception = calls[k].raised
                  /\ position = calls[k].position)
    /\ [](FormatErrorRaised =>
            /\ status[position] = "Running"
            /\ \A k \in DOMAIN status : k > position => status[k] = "Pending"
            /\ \E k \in DOMAIN calls : calls[k].raised = exception)
    /\ [][FormatErrorRaised => FALSE]_vars

\* a malformed third file of the regulators, read after a mismatch in the
\* second: the run ends there, with a later task still Pending
C12_Witness ==
    /\ FormatErrorRaised
    /\ exception = "ValueError"
    /\ Len(status) = 2
    /\ status = <<"Running", "Pending">>
    /\ Len(calls) = 3
    /\ calls[2].raised = None /\ ~calls[2].value
    /\ calls[3].raised = "ValueError"
    /\ match

\* the comparisons made for the task at position k, in order
CallsOf(k) == SelectSeq(calls, LAMBDA call : call.position = k)

\* the task at position k is ganesh, its two lists of runs were read and the
\* task has ended
GaneshEnded(k) ==
    /\ task_outputs[k].task = "ganesh"
    /\ status[k] \in {"Matched", "Mismatched"}

\* C15: when the two lists of runs differ in length the ganesh task is
\* Mismatched and compare_clusters was called for no run; when they have the
\* same length, the i-th comparison of the task is the one of the i-th run
\* of the first list with the i-th run of the second, for every i.
C15_RunsByIndex ==
    \A k \in DOMAIN status :
        GaneshEnded(k) =>
            LET firstfiles == Disk[task_outputs[k].first]
                secondfiles == Disk[task_outputs[k].second]
            IN  IF Len(firstfiles) # Len(secondfiles)
                THEN status[k] = "Mismatched" /\ CallsOf(k) = <<>>
                ELSE /\ Len(CallsOf(k)) = Len(firstfiles)
                     /\ \A i \in DOMAIN firstfiles :
                           /\ CallsOf(k)[i].function = "compare_clusters"
                           /\ CallsOf(k)[i].first = firstfiles[i]
                           /\ CallsOf(k)[i].second = secondfiles[i]

\* two lists of the same runs in a different order: each run was compared
\* with the run at its own index, and the task is Mismatched
C15_Witness ==
    /\ Len(status) >= 1
    /\ GaneshEnded(1)
    /\ status[1] = "Mismatched"
    /\ Len(CallsOf(1)) = 2
    /\ CallsOf(1)[1].first = <<"first", "run2">>
    /\ CallsOf(1)[1].second = <<"second", "run1">>
    /\ CallsOf(1)[2].first = <<"first", "run1">>
    /\ CallsOf(1)[2].second = <<"second", "run2">>

\* the task at position k has one of the three comparators and has ended
\* Matched or Mismatched, for ganesh with lists of runs of the same length
StageEnded(k) ==
    /\ task_outputs[k].task \in {"ganesh", "tight_clusters", "regulators"}
    /\ status[k] \in {"Matched", "Mismatched"}
    /\ task_outputs[k].task = "ganesh" =>
          Len(Disk[task_outputs[k].first]) = Len(Disk[task_outputs[k].second])

\* the number of comparisons a task is made of
SubArtifacts(k) ==
    CASE task_outputs[k].task = "ganesh" -> Len(Disk[task_outputs[k].first])
      [] task_outputs[k].task = "tight_clusters" -> 1
      [] task_outputs[k].task = "regulators" -> 4

\* what the comparator of the call returns on the content of its two files
ResultOnFiles(call) ==
    CASE call.function = "compare_clusters" ->
            compare_clusters(Disk[call.first], Disk[call.second]).value
      [] call.function = "compare_regulators" ->
            compare_regulators(Disk[call.first], Disk[call.second]).value
      [] call.function = "compare_xml_trees" ->
            compare_xml_trees(Disk[call.first].root, Disk[call.second].root, <<>>).value

\* C16: a task that ends Matched or Mismatched has made all its comparisons
\* (every run of ganesh, the three regulator files and the tree of
\* regulators, the one file of tight_clusters), each with the result of its
\* comparator on the two files, and it is Matched exactly when every one of
\* them returned True.
C16_StageIsConjunction ==
    \A k \in DOMAIN status :
        StageEnded(k) =>
            /\ Len(CallsOf(k)) = SubArtifacts(k)
            /\ \A i \in DOMAIN CallsOf(k) :
                  /\ CallsOf(k)[i].raised = None
                  /\ CallsOf(k)[i].value = ResultOnFiles(CallsOf(k)[i])
            /\ status[k] = "Matched" <=> \A i \in DOMAIN CallsOf(k) : CallsOf(k)[i].value

\* a regulators task whose second comparison returned False and whose
\* other three, the last one included, returned True: the task is Mismatched
C16_Witness ==
    /\ Len(status) >= 1
    /\ StageEnded(1)
    /\ task_outputs[1].task = "regulators"
    /\ \A i \in {1, 3, 4} : CallsOf(1)[i].value
    /\ ~CallsOf(1)[2].value
    /\ status[1] = "Mismatched"

Terminal == {"Matched", "Mismatched", "Skipped"}

\* the files of the i-th comparison of the task at position k
SubArtifact(k, i) ==
    CASE task_outputs[k].task = "ganesh" ->
            <<Disk[task_outputs[k].first][i], Disk[task_outputs[k].second][i]>>
      [] task_outputs[k].task = "tight_clusters" ->
            <<task_outputs[k].first, task_outputs[k].second>>
      [] task_outputs[k].task = "regulators" ->
            LET ext == <<"allreg.txt", "topreg.txt", "randomreg.txt", "xml.gz">>[i]
            IN  <<Suffixed(task_outputs[k].first, ext),
                  Suffixed(task_outputs[k].second, ext)>>

\* the tasks before the loop's position are terminal, the ones after it are
\* Pending, and the one at it is Pending, or Running if an exception left it
InManifestOrder ==
    pc \in {"loop", "raised", "done"} =>
        \A k \in DOMAIN status :
            /\ k < position => status[k] \in Terminal
            /\ k > position => status[k] = "Pending"
            /\ k = position => status[k] \in {"Pending", "Running"}

\* the comparisons made so far are those of the tasks in manifest order, and
\* within a task they are its sub-artifacts in their fixed order
CallsInOrder ==
    /\ \A a, b \in DOMAIN calls : a < b => calls[a].position <= calls[b].position
    /\ \A k \in DOMAIN status :
          \A i \in DOMAIN CallsOf(k) :
              <<CallsOf(k)[i].first, CallsOf(k)[i].second>> = SubArtifact(k, i)

\* C17: the tasks are handled one at a time in manifest order: a step
\* changes the status of the task at the loop's position only, from Pending;
\* a terminal status never changes; the comparisons are made task after
\* task and, within a task, in the fixed order of its sub-artifacts; the
\* assertion is evaluated only when every task is terminal.
C17_ManifestOrder ==
    /\ [](InManifestOrder /\ CallsInOrder)
    /\ []((pc = "done" \/ (pc = "raised" /\ exception = "AssertionError")) => AllTerminal)
    /\ [][\A k \in DOMAIN status :
             status'[k] # status[k] =>
                 /\ k = position
                 /\ status[k] = "Pending"
                 /\ \A j \in DOMAIN status : j < k => status[j] \in Terminal]_vars

\* a regulators task and then a ganesh task, both compared in full, and the
\* assertion evaluated
C17_Witness ==
    /\ pc \in {"done", "raised"}
    /\ AllTerminal
    /\ Len(status) = 2
    /\ task_outputs[1].task = "regulators"
    /\ task_outputs[2].task = "ganesh"
    /\ Len(CallsOf(1)) = 4
    /\ Len(CallsOf(2)) = 2

\* a comparison that returned False
ReturnedFalse(call) == call.raised = None /\ ~call.value

\* C18: a comparison that returns False stops nothing: the next sub-artifact
\* of its task is compared after it, every later task that has ended was
\* compared in full, the step of a task that ends Mismatched goes on to the
\* next task, and match, once False, stays False.
C18_MismatchGoesOn ==
    /\ [](\A k \in DOMAIN status :
            \A i \in DOMAIN CallsOf(k) :
                ReturnedFalse(CallsOf(k)[i]) =>
                    /\ i < SubArtifacts(k) => Len(CallsOf(k)) > i
                    /\ \A j \in DOMAIN status :
                          (j >= k /\ StageEnded(j)) => Len(CallsOf(j)) = SubArtifacts(j))
    /\ [][(AtTask /\ status'[position] = "Mismatched") =>
             pc' = "loop" /\ position' = position + 1]_vars
    /\ [][(pc = "loop" /\ ~match) => ~match']_vars

\* both runs of a ganesh task returned False, and the regulators task after
\* it was compared in full and matched: the assertion raised
C18_Witness ==
    /\ pc = "raised"
    /\ exception = "AssertionError"
    /\ Len(status) = 2
    /\ task_outputs[1].task = "ganesh"
    /\ Len(CallsOf(1)) = 2
    /\ ReturnedFalse(CallsOf(1)[1])
    /\ status = <<"Mismatched", "Matched">>
    /\ task_outputs[2].task = "regulators"
    /\ Len(CallsOf(2)) = 4
    /\ ~match

\* the two configs.json files differed in the keys of a task or in a task
ConfigurationDrift == warnings # {}

\* the task at position k is Mismatched for a cause in its output files: a
\* comparison that returned False, or two lists of runs of different lengths
MismatchInOutputs(k) ==
    \/ \E i \in DOMAIN CallsOf(k) : ReturnedFalse(CallsOf(k)[i])
    \/ /\ task_outputs[k].task = "ganesh"
       /\ task_outputs[k].first # None
       /\ task_outputs[k].second # None
       /\ exists(task_outputs[k].first)
       /\ exists(task_outputs[k].second)
       /\ Len(Disk[task_outputs[k].first]) # Len(Disk[task_outputs[k].second])

\* path is what read_task_outputs makes of the output_file value out
PathOf(path, dir, out) ==
    IF out \in {null, ""} THEN path = None
    ELSE path # None /\ path = join(dir, out)

\* C20: whatever the WARNING lines of read_task_outputs, the step that reads
\* the two configs.json files raises nothing and leaves match True; the
\* output paths of every task are the ones its two output_file values give;
\* the warnings are printed by that step only; and a task is Mismatched, and
\* the assertion raises, only for a cause in the output files.
C20_DriftOnlyWarns ==
    /\ [][pc = "read_task_outputs" =>
             /\ pc' = "loop"
             /\ exception' = None
             /\ match'
             /\ calls' = <<>>]_vars
    /\ [][pc # "read_task_outputs" => warnings' = warnings]_vars
    /\ [](\A k \in DOMAIN task_outputs :
             /\ PathOf(task_outputs[k].first, "first", declared[k][1])
             /\ PathOf(task_outputs[k].second, "second", declared[k][2])
             /\ status[k] = "Mismatched" => MismatchInOutputs(k))
    /\ []((pc = "raised" /\ exception = "AssertionError") =>
             \E k \in DOMAIN status : MismatchInOutputs(k))

\* a key missing on each side, a key with two values and a task on one side
\* only were all warned about, a task was compared, and the run succeeded
C20_Witness ==
    /\ pc = "done"
    /\ \E task \in Tasks :
          /\ <<"Second configs do not contain the key", task, "num_runs">> \in warnings
          /\ <<"Mismatch in configs", task, "seed">> \in warnings
          /\ <<"First configs do not contain key", task, "num_steps">> \in warnings
    /\ \E t1, t2 \in Tasks : <<"Mismatch in tasks", t1, t2>> \in warnings
    /\ \E k \in DOMAIN status : status[k] = "Matched" /\ CallsOf(k) # <<>>

\* the task at position k is none of the three that have a comparator, and
\* both sides declare an output file for it
Unrouted(k) ==
    /\ task_outputs[k].task \notin {"ganesh", "tight_clusters", "regulators"}
    /\ task_outputs[k].first # None
    /\ task_outputs[k].second # None

\* C22: the step of a task that has no comparator and two declared output
\* files makes no comparison, opens no file, raises nothing and leaves match
\* as it was, and the loop goes on; such a task is never Mismatched.
C22_UnroutedTask ==
    /\ [][(AtTask /\ Unrouted(position)) =>
             /\ calls' = calls
             /\ opened' = opened
             /\ match' = match
             /\ exception' = exception
             /\ pc' = "loop"
             /\ position' = position + 1]_vars
    /\ [](\A k \in DOMAIN status :
             Unrouted(k) => status[k] # "Mismatched" /\ CallsOf(k) = <<>>)

\* a task without a comparator, with two output files that are not on the
\* disk, then a task that matched: the run ended in success
C22_Witness ==
    /\ pc = "done"
    /\ Len(status) = 2
    /\ Unrouted(1)
    /\ ~exists(task_outputs[1].first)
    /\ status[2] = "Matched"
    /\ CallsOf(2) # <<>>
    /\ match

(***************************************************************************)
(* Properties of run_experiment                                            *)
(***************************************************************************)
\* the invocations that exited with status 0, in order
Successes == SelectSeq(invocations, LAMBDA invocation : invocation.ok)

\* no failed invocation is retried: 'Run failed. Retrying.' is never printed,
\* and a failed invocation is the last one, has made t equal MAX_RETRIES and
\* has left run_experiment with its CalledProcessError
NoRetry ==
    /\ retries = 0
    /\ \A k \in DOMAIN invocations :
          ~invocations[k].ok =>
              /\ k = Len(invocations)
              /\ t = MAX_RETRIES
              /\ pc = "raised"
              /\ ret.raised = "CalledProcessError"

\* a normal return has made exactly n invocations, all successful, and
\* returns exactly n records, the i-th parsed from the i-th success
ReturnsRecords(n) ==
    pc = "returned_runtimes" =>
        /\ Len(invocations) = n
        /\ Len(Successes) = n
        /\ ret.raised = None
        /\ ret.value = runtimes
        /\ Len(runtimes) = n
        /\ \A k \in DOMAIN runtimes :
              runtimes[k] = parse_runtimes(Successes[k].output).value

\* the number of records of a normal return: repeat, and none for a negative
\* repeat
Asked == IF repeat < 0 THEN 0 ELSE repeat

\* C24 as stated: no failed invocation is retried, and a normal return has
\* made exactly repeat successful invocations and returns exactly repeat
\* records, one per success in order.
C24_NoRetry == NoRetry /\ ReturnsRecords(repeat)

\* C24: no failed invocation is ever retried (the first CalledProcessError
\* makes t equal MAX_RETRIES and is re-raised, 'Run failed. Retrying.' is
\* never printed), and a normal return has made exactly max(repeat, 0)
\* successful invocations and returns exactly that many records, one per
\* success in order.
C24_NoRetryCounted == NoRetry /\ ReturnsRecords(Asked)

\* a normal return after two or more runs whose outputs differ
C24_Witness ==
    /\ pc = "returned_runtimes"
    /\ repeat >= 2
    /\ Len(runtimes) = repeat
    /\ runtimes[1] # runtimes[2]

====
